---- MODULE Spec2Model ----
(***************************************************************************)
(* Model of the vSphere provider extension's configuration decoding, the  *)
(* shoot admission validation flows (pkg/apis/vsphere/helper/scheme.go)   *)
(* and the Cluster resource helpers (gardener/pkg/extensions/cluster.go). *)
(***************************************************************************)
EXTENDS Integers, Sequences, FiniteSets, TLC

VARIABLES
    pc,                \* position of the admission call
    call,              \* the request being validated (operation, shoots, verdicts)
    oldValContext,     \* newValidationContext result for the old shoot (update)
    valContext,        \* newValidationContext result for the (new) shoot
    validated,         \* the context handed to validateShoot
    result,            \* the error the admission call returned
    trace,             \* calls made by the admission call, in order
    fetched,           \* what each Get of the admission call returned, in order
    store,             \* garden store: CloudProfile objects by name
    decodeCall,        \* decoder invocation: function and input
    decodeResult,      \* decoder invocation: what it returned
    seedStore,         \* seed store: Cluster resources by name
    clusterOp          \* the last Cluster helper call: arguments and outcome

vars == <<pc, call, oldValContext, valContext, validated, result, trace, fetched, store,
          decodeCall, decodeResult, seedStore, clusterOp>>

admissionVars == <<pc, call, oldValContext, valContext, validated, result, trace, fetched,
                   store>>
decodeVars == <<decodeCall, decodeResult>>
clusterVars == <<seedStore, clusterOp>>

-----------------------------------------------------------------------------
(* Bounds *)

\* number of distinct non-zero contents a serialized object may carry
MaxBody == 2

Bodies == 1..MaxBody

\* number of distinct contents an object embedded in a Cluster resource may carry
MaxEmbeddedBody == 1

EmbeddedBodies == 1..MaxEmbeddedBody

-----------------------------------------------------------------------------
(* Raw payloads (runtime.RawExtension.Raw) and the codec *)

RawNil == [class |-> "nil"]
RawEmpty == [class |-> "empty"]
RawMalformed == [class |-> "malformed"]
RawObject(k, b) == [class |-> "object", kind |-> k, body |-> b]

ConfigKinds == {"InfrastructureConfig", "ControlPlaneConfig", "CloudProfileConfig"}

\* every kind a payload may declare; "Other" is a kind no target type matches
PayloadKinds == ConfigKinds \cup {"Other"}

Raws == {RawNil, RawEmpty, RawMalformed}
            \cup {RawObject(k, b) : k \in PayloadKinds, b \in Bodies}

NoError == [type |-> "nil"]
NilConfig == [kind |-> "nil"]

\* the zero value of a typed config (&vsphere.X{})
ZeroConfig(target) == [kind |-> target, body |-> 0]

\* decoder.Decode(raw, nil, into) / util.Decode(decoder, raw, into):
\* absent or empty bytes leave `into` at its zero value, bytes of the target
\* type fill it, anything else is an error.
Decode(raw, target) ==
    IF raw.class \in {"nil", "empty"}
    THEN [obj |-> ZeroConfig(target), err |-> NoError]
    ELSE IF raw.class = "object" /\ raw.kind = target
    THEN [obj |-> [kind |-> target, body |-> raw.body], err |-> NoError]
    ELSE [obj |-> ZeroConfig(target), err |-> [type |-> "codec", raw |-> raw]]

-----------------------------------------------------------------------------
(* Errors *)

FieldRequired(path, detail) ==
    [type |-> "FieldValueRequired", field |-> path, detail |-> detail]
FieldInvalid(path, value, detail) ==
    [type |-> "FieldValueInvalid", field |-> path, value |-> value, detail |-> detail]
Errorf(msg, args) == [type |-> "errorString", msg |-> msg, args |-> args]
\* errors.Wrapf(err, msg)
Wrapf(err, msg, args) == [type |-> "withMessage", msg |-> msg, args |-> args, cause |-> err]
\* field.ErrorList.ToAggregate()
ToAggregate(errList) == [type |-> "Aggregate", errs |-> errList]

specPath == "spec"
providerConfigPath == "spec.providerConfig"
nwPath == "spec.networking"
providerPath == "spec.provider"
infraConfigPath == "spec.provider.infrastructureConfig"
cpConfigPath == "spec.provider.controlPlaneConfig"
workersPath == "spec.provider.workers"

-----------------------------------------------------------------------------
(* *core.ProviderConfig: a pointer that is nil or holds a raw payload *)

NilProviderConfig == [ptr |-> "nil"]
ProviderConfig(raw) == [ptr |-> "set", raw |-> raw]

ProviderConfigs == {NilProviderConfig} \cup {ProviderConfig(r) : r \in Raws}

\* outcome of dereferencing a nil pointer
Panic == [config |-> NilConfig, err |-> NoError, panic |-> TRUE]
Returned(config, err) == [config |-> config, err |-> err, panic |-> FALSE]

DecodeControlPlaneConfig(cp, fldPath) ==
    IF cp = NilProviderConfig THEN Panic
    ELSE IF Decode(cp.raw, "ControlPlaneConfig").err # NoError
    THEN Returned(NilConfig, FieldInvalid(fldPath, cp.raw, "cannot be decoded"))
    ELSE Returned(Decode(cp.raw, "ControlPlaneConfig").obj, NoError)

DecodeInfrastructureConfig(infra, fldPath) ==
    IF infra = NilProviderConfig THEN Panic
    ELSE IF Decode(infra.raw, "InfrastructureConfig").err # NoError
    THEN Returned(NilConfig, Errorf("cannot be decoded", <<>>))
    ELSE Returned(Decode(infra.raw, "InfrastructureConfig").obj, NoError)

DecodeCloudProfileConfig(config, fldPath) ==
    IF config = NilProviderConfig THEN Panic
    ELSE IF Decode(config.raw, "CloudProfileConfig").err # NoError
    THEN Returned(NilConfig, FieldInvalid(fldPath, config.raw, "cannot be decoded"))
    ELSE Returned(Decode(config.raw, "CloudProfileConfig").obj, NoError)

-----------------------------------------------------------------------------
(* Shoots and the Get* helpers of the controller side *)

ShootNames == {"shoot"}
ProfileNames == {"profile"}

Shoot(name, profile, infra, cp) ==
    [name |-> name, cloudProfileName |-> profile,
     infrastructureConfig |-> infra, controlPlaneConfig |-> cp]

Shoots ==
    {Shoot(n, p, i, c) : n \in ShootNames, p \in ProfileNames,
                          i \in ProviderConfigs, c \in ProviderConfigs}

\* *controller.Cluster as far as the helpers read it
Clusters == {[shoot |-> s] : s \in Shoots}

GetControlPlaneConfig(cluster) ==
    IF cluster.shoot.controlPlaneConfig # NilProviderConfig
    THEN IF Decode(cluster.shoot.controlPlaneConfig.raw, "ControlPlaneConfig").err # NoError
         THEN Returned(NilConfig,
                  Wrapf(Decode(cluster.shoot.controlPlaneConfig.raw, "ControlPlaneConfig").err,
                        "could not decode providerConfig of controlplane", <<cluster.shoot.name>>))
         ELSE Returned(Decode(cluster.shoot.controlPlaneConfig.raw, "ControlPlaneConfig").obj,
                       NoError)
    ELSE Returned(ZeroConfig("ControlPlaneConfig"), NoError)

\* GetInfrastructureConfig handing back the config it decoded into next to the error
GetInfrastructureConfigKeepsConfig(cluster) ==
    LET source == cluster.shoot.infrastructureConfig IN
    IF source # NilProviderConfig /\ source.raw # RawNil
    THEN Returned(Decode(source.raw, "InfrastructureConfig").obj,
                  Decode(source.raw, "InfrastructureConfig").err)
    ELSE Returned(ZeroConfig("InfrastructureConfig"), NoError)

GetInfrastructureConfig(cluster) ==
    LET source == cluster.shoot.infrastructureConfig IN
    IF source # NilProviderConfig /\ source.raw # RawNil
    THEN IF Decode(source.raw, "InfrastructureConfig").err # NoError
         THEN Returned(NilConfig, Decode(source.raw, "InfrastructureConfig").err)
         ELSE Returned(Decode(source.raw, "InfrastructureConfig").obj, NoError)
    ELSE Returned(ZeroConfig("InfrastructureConfig"), NoError)

-----------------------------------------------------------------------------
(* Validation context *)

NilContext == [nil |-> TRUE]
NotBuilt == [ctx |-> NilContext, err |-> NoError, built |-> FALSE]
Built(ctx, err) == [ctx |-> ctx, err |-> err, built |-> TRUE]

\* newValidationContext with the controlPlaneConfig presence check testing the
\* wrong field, so a nil controlPlaneConfig reaches the decoder
newValidationContextWrongPresenceCheck(shoot) ==
    IF shoot.infrastructureConfig = NilProviderConfig
    THEN Built(NilContext,
               FieldRequired(infraConfigPath,
                             "infrastructureConfig must be set for OpenStack shoots"))
    ELSE LET infra == DecodeInfrastructureConfig(shoot.infrastructureConfig, infraConfigPath) IN
         IF infra.err # NoError THEN Built(NilContext, infra.err)
         ELSE LET cp == DecodeControlPlaneConfig(shoot.controlPlaneConfig, cpConfigPath) IN
              IF cp.err # NoError THEN Built(NilContext, cp.err)
              ELSE Built([shoot |-> shoot, infraConfig |-> infra.config,
                          cpConfig |-> cp.config], NoError)

\* newValidationContext handing back the half-built context next to a
\* control plane decode error
newValidationContextPartial(shoot) ==
    IF shoot.infrastructureConfig = NilProviderConfig
    THEN Built(NilContext,
               FieldRequired(infraConfigPath,
                             "infrastructureConfig must be set for OpenStack shoots"))
    ELSE LET infra == DecodeInfrastructureConfig(shoot.infrastructureConfig, infraConfigPath) IN
         IF infra.err # NoError THEN Built(NilContext, infra.err)
         ELSE IF shoot.controlPlaneConfig = NilProviderConfig
         THEN Built(NilContext,
                    FieldRequired(cpConfigPath,
                                  "controlPlaneConfig must be set for OpenStack shoots"))
         ELSE LET cp == DecodeControlPlaneConfig(shoot.controlPlaneConfig, cpConfigPath) IN
              IF cp.err # NoError
              THEN Built([shoot |-> shoot, infraConfig |-> infra.config,
                          cpConfig |-> cp.config], cp.err)
              ELSE Built([shoot |-> shoot, infraConfig |-> infra.config,
                          cpConfig |-> cp.config], NoError)

newValidationContext(shoot) ==
    IF shoot.infrastructureConfig = NilProviderConfig
    THEN Built(NilContext,
               FieldRequired(infraConfigPath,
                             "infrastructureConfig must be set for OpenStack shoots"))
    ELSE LET infra == DecodeInfrastructureConfig(shoot.infrastructureConfig, infraConfigPath) IN
         IF infra.err # NoError THEN Built(NilContext, infra.err)
         ELSE IF shoot.controlPlaneConfig = NilProviderConfig
         THEN Built(NilContext,
                    FieldRequired(cpConfigPath,
                                  "controlPlaneConfig must be set for OpenStack shoots"))
         ELSE LET cp == DecodeControlPlaneConfig(shoot.controlPlaneConfig, cpConfigPath) IN
              IF cp.err # NoError THEN Built(NilContext, cp.err)
              ELSE Built([shoot |-> shoot, infraConfig |-> infra.config,
                          cpConfig |-> cp.config], NoError)

-----------------------------------------------------------------------------
(* Field validators.  A validator's verdict on the arguments the flow hands *)
(* it is an input of the request: violates.x says that validator x reports *)
(* at least one violation.                                                   *)

Violations ==
    [cpAgainstProfile : BOOLEAN, cpUpdate : BOOLEAN, workersUpdate : BOOLEAN,
     networking : BOOLEAN, controlPlane : BOOLEAN, workers : BOOLEAN]

FieldError(path, by) == [type |-> "FieldValueInvalid", field |-> path, by |-> by]

ValidateInfrastructureConfig(infra, nodesCIDR, fldPath) == <<>>

ValidateInfrastructureConfigUpdate(oldConfig, newConfig, fldPath) == <<>>

ValidateInfrastructureConfigAgainstCloudProfile(infra, cloudProfileConfig, fldPath) == <<>>

ValidateControlPlaneConfigAgainstCloudProfile(cpConfig, cloudProfileConfig, fldPath, violates) ==
    IF violates.cpAgainstProfile
    THEN <<FieldError(fldPath, "ValidateControlPlaneConfigAgainstCloudProfile")>> ELSE <<>>

ValidateControlPlaneConfigUpdate(oldConfig, newConfig, fldPath, violates) ==
    IF violates.cpUpdate
    THEN <<FieldError(fldPath, "ValidateControlPlaneConfigUpdate")>> ELSE <<>>

ValidateWorkersUpdate(oldShoot, shoot, fldPath, violates) ==
    IF violates.workersUpdate
    THEN <<FieldError(fldPath, "ValidateWorkersUpdate")>> ELSE <<>>

ValidateNetworking(shoot, fldPath, violates) ==
    IF violates.networking THEN <<FieldError(fldPath, "ValidateNetworking")>> ELSE <<>>

ValidateControlPlaneConfig(cpConfig, fldPath, violates) ==
    IF violates.controlPlane
    THEN <<FieldError(fldPath, "ValidateControlPlaneConfig")>> ELSE <<>>

ValidateWorkers(shoot, fldPath, violates) ==
    IF violates.workers THEN <<FieldError(fldPath, "ValidateWorkers")>> ELSE <<>>

-----------------------------------------------------------------------------
(* The garden store and its client *)

AbsentProfile == [exists |-> FALSE]
CloudProfile(name, providerConfig) ==
    [exists |-> TRUE, name |-> name, providerConfig |-> providerConfig]

\* what a CloudProfile's spec.providerConfig may hold
ProfileProviderConfigs ==
    {NilProviderConfig, ProviderConfig(RawEmpty), ProviderConfig(RawMalformed)}
        \cup {ProviderConfig(RawObject("CloudProfileConfig", b)) : b \in Bodies}

Faults == {"none", "transport", "context canceled"}

\* v.client.Get(ctx, kutil.Key(name), cloudProfile)
ClientGet(st, key, fault) ==
    IF fault # "none"
    THEN [obj |-> AbsentProfile, err |-> [type |-> fault]]
    ELSE IF ~st[key].exists
    THEN [obj |-> AbsentProfile,
          err |-> [type |-> "StatusError", reason |-> "NotFound", name |-> key]]
    ELSE [obj |-> st[key], err |-> NoError]

Step(err, calls) == [err |-> err, trace |-> calls]
\* outcome of a cross-profile check: its error, the calls it made, what its Get returned
Checked(err, calls, got) == [err |-> err, trace |-> calls, gets |-> <<got>>]

\* validateInfraAgainstCloudProfile once the Get has succeeded
infraAgainstFetched(got, infraConfig, fldPath) ==
    LET cloudProfile == got.obj IN
    IF cloudProfile.providerConfig = NilProviderConfig
    THEN Checked(Errorf("providerConfig is not given for cloud profile %q",
                        <<cloudProfile.name>>), <<"Get">>, got)
    ELSE LET decoded == DecodeCloudProfileConfig(cloudProfile.providerConfig,
                                                 providerConfigPath)
             errList == ValidateInfrastructureConfigAgainstCloudProfile(
                            infraConfig, decoded.config, fldPath)
         IN  IF decoded.err # NoError
             THEN Checked([type |-> "errorString",
                           msg |-> "an error occurred while reading the cloud profile %q: %v",
                           args |-> <<cloudProfile.name>>, cause |-> decoded.err],
                          <<"Get", "DecodeCloudProfileConfig">>, got)
             ELSE IF Len(errList) # 0
             THEN Checked(ToAggregate(errList),
                          <<"Get", "DecodeCloudProfileConfig",
                            "ValidateInfrastructureConfigAgainstCloudProfile">>, got)
             ELSE Checked(NoError,
                          <<"Get", "DecodeCloudProfileConfig",
                            "ValidateInfrastructureConfigAgainstCloudProfile">>, got)

\* validateInfraAgainstCloudProfile wrapping the store's error in a message
validateInfraAgainstCloudProfileWrapped(st, fault, shoot, infraConfig, fldPath) ==
    LET got == ClientGet(st, shoot.cloudProfileName, fault) IN
    IF got.err # NoError
    THEN Checked(Wrapf(got.err, "could not get cloud profile %q", <<shoot.cloudProfileName>>),
                 <<"Get">>, got)
    ELSE infraAgainstFetched(got, infraConfig, fldPath)

\* validateInfraAgainstCloudProfile trying the Get a second time when it fails
validateInfraAgainstCloudProfileRetry(st, fault, shoot, infraConfig, fldPath) ==
    LET got == ClientGet(st, shoot.cloudProfileName, fault)
        again == ClientGet(st, shoot.cloudProfileName, "none")
        second == infraAgainstFetched(again, infraConfig, fldPath)
    IN  IF got.err = NoError THEN infraAgainstFetched(got, infraConfig, fldPath)
        ELSE IF again.err # NoError
        THEN [err |-> again.err, trace |-> <<"Get", "Get">>, gets |-> <<got, again>>]
        ELSE [err |-> second.err, trace |-> <<"Get">> \o second.trace,
              gets |-> <<got, again>>]

validateInfraAgainstCloudProfile(st, fault, shoot, infraConfig, fldPath) ==
    LET got == ClientGet(st, shoot.cloudProfileName, fault) IN
    IF got.err # NoError THEN Checked(got.err, <<"Get">>, got)
    ELSE infraAgainstFetched(got, infraConfig, fldPath)

\* validateCpAgainstCloudProfile once its Get returned a profile that has a providerConfig
cpAgainstProviderConfig(got, cpConfig, fldPath, violates) ==
    LET cloudProfile == got.obj
        decoded == DecodeCloudProfileConfig(cloudProfile.providerConfig, providerConfigPath)
        errList == ValidateControlPlaneConfigAgainstCloudProfile(
                       cpConfig, decoded.config, fldPath, violates)
    IN  IF decoded.err # NoError
        THEN Checked([type |-> "errorString",
                      msg |-> "an error occurred while reading the cloud profile %q: %v",
                      args |-> <<cloudProfile.name>>, cause |-> decoded.err],
                     <<"Get", "DecodeCloudProfileConfig">>, got)
        ELSE IF Len(errList) # 0
        THEN Checked(ToAggregate(errList),
                     <<"Get", "DecodeCloudProfileConfig",
                       "ValidateControlPlaneConfigAgainstCloudProfile">>, got)
        ELSE Checked(NoError,
                     <<"Get", "DecodeCloudProfileConfig",
                       "ValidateControlPlaneConfigAgainstCloudProfile">>, got)

\* validateCpAgainstCloudProfile taking a profile without providerConfig as
\* one that declares no constraints
validateCpAgainstCloudProfileLenient(st, fault, shoot, cpConfig, fldPath, violates) ==
    LET got == ClientGet(st, shoot.cloudProfileName, fault) IN
    IF got.err # NoError THEN Checked(got.err, <<"Get">>, got)
    ELSE IF got.obj.providerConfig = NilProviderConfig
    THEN Checked(NoError, <<"Get">>, got)
    ELSE cpAgainstProviderConfig(got, cpConfig, fldPath, violates)

\* the calls of a control plane cross-profile check that reached its validator
FullCheckTraceOfCp ==
    <<"Get", "DecodeCloudProfileConfig", "ValidateControlPlaneConfigAgainstCloudProfile">>

\* validateCpAgainstCloudProfile returning nil whatever list the validator returns
validateCpAgainstCloudProfileDropsErrList(st, fault, shoot, cpConfig, fldPath, violates) ==
    LET got == ClientGet(st, shoot.cloudProfileName, fault)
        checked == cpAgainstProviderConfig(got, cpConfig, fldPath, violates)
    IN  IF got.err # NoError THEN Checked(got.err, <<"Get">>, got)
        ELSE IF got.obj.providerConfig = NilProviderConfig
        THEN Checked(Errorf("providerConfig is not given for cloud profile %q",
                            <<got.obj.name>>), <<"Get">>, got)
        ELSE IF checked.trace = FullCheckTraceOfCp
        THEN Checked(NoError, checked.trace, got)
        ELSE checked

validateCpAgainstCloudProfile(st, fault, shoot, cpConfig, fldPath, violates) ==
    LET got == ClientGet(st, shoot.cloudProfileName, fault) IN
    IF got.err # NoError THEN Checked(got.err, <<"Get">>, got)
    ELSE IF got.obj.providerConfig = NilProviderConfig
    THEN Checked(Errorf("providerConfig is not given for cloud profile %q",
                        <<got.obj.name>>), <<"Get">>, got)
    ELSE cpAgainstProviderConfig(got, cpConfig, fldPath, violates)

\* validateShoot running every validator and reporting the last non-empty list
validateShootNoFailFast(context, violates) ==
    LET nw == ValidateNetworking(context.shoot, nwPath, violates)
        cp == ValidateControlPlaneConfig(context.cpConfig, cpConfigPath, violates)
        workers == ValidateWorkers(context.shoot, workersPath, violates)
        all == <<"ValidateNetworking", "ValidateInfrastructureConfig",
                 "ValidateControlPlaneConfig", "ValidateWorkers">>
    IN  IF Len(workers) # 0 THEN Step(ToAggregate(workers), all)
        ELSE IF Len(cp) # 0 THEN Step(ToAggregate(cp), all)
        ELSE IF Len(nw) # 0 THEN Step(ToAggregate(nw), all)
        ELSE Step(NoError, all)

validateShoot(context, violates) ==
    LET nw == ValidateNetworking(context.shoot, nwPath, violates)
        infra == ValidateInfrastructureConfig(context.infraConfig, context.shoot, infraConfigPath)
        cp == ValidateControlPlaneConfig(context.cpConfig, cpConfigPath, violates)
        workers == ValidateWorkers(context.shoot, workersPath, violates)
    IN  IF Len(nw) # 0 THEN Step(ToAggregate(nw), <<"ValidateNetworking">>)
        ELSE IF Len(infra) # 0
        THEN Step(ToAggregate(infra), <<"ValidateNetworking", "ValidateInfrastructureConfig">>)
        ELSE IF Len(cp) # 0
        THEN Step(ToAggregate(cp),
                  <<"ValidateNetworking", "ValidateInfrastructureConfig",
                    "ValidateControlPlaneConfig">>)
        ELSE IF Len(workers) # 0
        THEN Step(ToAggregate(workers),
                  <<"ValidateNetworking", "ValidateInfrastructureConfig",
                    "ValidateControlPlaneConfig", "ValidateWorkers">>)
        ELSE Step(NoError,
                  <<"ValidateNetworking", "ValidateInfrastructureConfig",
                    "ValidateControlPlaneConfig", "ValidateWorkers">>)

\* validateShootUpdate checking the workers delta before the control plane delta
validateShootUpdateWorkersFirst(oldShoot, shoot, violates) ==
    LET old == newValidationContext(oldShoot)
        new == newValidationContext(shoot)
        cpErrs == ValidateControlPlaneConfigUpdate(old.ctx.cpConfig, new.ctx.cpConfig,
                                                   cpConfigPath, violates)
        workerErrs == ValidateWorkersUpdate(oldShoot, shoot, workersPath, violates)
        final == validateShoot(new.ctx, violates)
        t1 == <<"newValidationContext(oldShoot)">>
        t2 == t1 \o <<"newValidationContext(shoot)">>
        t3 == t2 \o <<"ValidateInfrastructureConfigUpdate">>
        t4 == t3 \o <<"ValidateWorkersUpdate">>
        t5 == t4 \o <<"ValidateControlPlaneConfigUpdate">>
        Out(err, calls, o, n, v) ==
            [err |-> err, trace |-> calls, oldValContext |-> o, valContext |-> n,
             validated |-> v]
    IN  IF old.err # NoError THEN Out(old.err, t1, old, NotBuilt, NilContext)
        ELSE IF new.err # NoError THEN Out(new.err, t2, old, new, NilContext)
        ELSE IF Len(workerErrs) > 0 THEN Out(ToAggregate(workerErrs), t4, old, new, NilContext)
        ELSE IF Len(cpErrs) # 0 THEN Out(ToAggregate(cpErrs), t5, old, new, NilContext)
        ELSE Out(final.err, t5 \o <<"validateShoot">> \o final.trace, old, new, new.ctx)

\* (v *Shoot) validateShootUpdate: the flow has no external call, so it is one step
validateShootUpdate(oldShoot, shoot, violates) ==
    LET old == newValidationContext(oldShoot)
        new == newValidationContext(shoot)
        infraErrs == ValidateInfrastructureConfigUpdate(old.ctx.infraConfig,
                                                        new.ctx.infraConfig, infraConfigPath)
        cpErrs == ValidateControlPlaneConfigUpdate(old.ctx.cpConfig, new.ctx.cpConfig,
                                                   cpConfigPath, violates)
        workerErrs == ValidateWorkersUpdate(oldShoot, shoot, workersPath, violates)
        final == validateShoot(new.ctx, violates)
        t1 == <<"newValidationContext(oldShoot)">>
        t2 == t1 \o <<"newValidationContext(shoot)">>
        t3 == t2 \o <<"ValidateInfrastructureConfigUpdate">>
        t4 == t3 \o <<"ValidateControlPlaneConfigUpdate">>
        t5 == t4 \o <<"ValidateWorkersUpdate">>
        Out(err, calls, o, n, v) ==
            [err |-> err, trace |-> calls, oldValContext |-> o, valContext |-> n,
             validated |-> v]
    IN  IF old.err # NoError THEN Out(old.err, t1, old, NotBuilt, NilContext)
        ELSE IF new.err # NoError THEN Out(new.err, t2, old, new, NilContext)
        ELSE IF Len(infraErrs) # 0 THEN Out(ToAggregate(infraErrs), t3, old, new, NilContext)
        ELSE IF Len(cpErrs) # 0 THEN Out(ToAggregate(cpErrs), t4, old, new, NilContext)
        ELSE IF Len(workerErrs) > 0 THEN Out(ToAggregate(workerErrs), t5, old, new, NilContext)
        ELSE Out(final.err, t5 \o <<"validateShoot">> \o final.trace, old, new, new.ctx)

-----------------------------------------------------------------------------
(* The admission call as a state machine *)

NoCall == [op |-> "none"]

\* provider configs a shoot under admission carries: unset, empty, undecodable, decodable
AdmissionConfigs(kind) ==
    {NilProviderConfig, ProviderConfig(RawEmpty), ProviderConfig(RawMalformed)}
        \cup {ProviderConfig(RawObject(kind, b)) : b \in Bodies}

AdmissionShoots ==
    {Shoot(n, p, i, c) : n \in ShootNames, p \in ProfileNames,
                          i \in AdmissionConfigs("InfrastructureConfig"),
                          c \in AdmissionConfigs("ControlPlaneConfig")}

CreateViolations == {v \in Violations : ~v.cpUpdate /\ ~v.workersUpdate}
UpdateViolations == {v \in Violations : ~v.cpAgainstProfile}

AdmissionInit ==
    /\ pc = "idle"
    /\ call = NoCall
    /\ oldValContext = NotBuilt
    /\ valContext = NotBuilt
    /\ validated = NilContext
    /\ result = NoError
    /\ trace = <<>>
    /\ fetched = <<>>
    /\ store = [n \in ProfileNames |-> AbsentProfile]

\* another client of the garden store creates, changes or deletes a CloudProfile
\* (before a call, or between the store accesses of a call in progress)
EnvWriteCloudProfile ==
    /\ pc \in {"idle", "infraProfile", "cpProfile"}
    /\ \E n \in ProfileNames :
         \E p \in {AbsentProfile} \cup {CloudProfile(n, c) : c \in ProfileProviderConfigs} :
            /\ p # store[n]
            /\ store' = [store EXCEPT ![n] = p]
    /\ UNCHANGED <<pc, call, oldValContext, valContext, validated, result, trace, fetched>>
    /\ UNCHANGED <<decodeVars, clusterVars>>

\* validateShootCreation up to its first store access
ValidateShootCreationStart ==
    /\ pc = "idle"
    /\ \E shoot \in AdmissionShoots, violates \in CreateViolations :
         LET built == newValidationContext(shoot) IN
         /\ call' = [op |-> "create", shoot |-> shoot, violates |-> violates]
         /\ valContext' = built
         /\ trace' = <<"newValidationContext(shoot)">>
         /\ IF built.err # NoError
            THEN pc' = "done" /\ result' = built.err
            ELSE pc' = "infraProfile" /\ result' = NoError
    /\ UNCHANGED <<oldValContext, validated, fetched, store>>
    /\ UNCHANGED <<decodeVars, clusterVars>>

\* validateShootCreation: the infrastructure cross-profile check
ValidateShootCreationInfra ==
    /\ pc = "infraProfile"
    /\ \E fault \in Faults :
         LET r == validateInfraAgainstCloudProfile(store, fault, call.shoot,
                                                   valContext.ctx.infraConfig, infraConfigPath)
         IN  /\ trace' = trace \o <<"validateInfraAgainstCloudProfile">> \o r.trace
             /\ fetched' = fetched \o r.gets
             /\ IF r.err # NoError
                THEN pc' = "done" /\ result' = r.err
                ELSE pc' = "cpProfile" /\ result' = NoError
    /\ UNCHANGED <<call, oldValContext, valContext, validated, store>>
    /\ UNCHANGED <<decodeVars, clusterVars>>

\* validateShootCreation: the control plane cross-profile check, then validateShoot
ValidateShootCreationCp ==
    /\ pc = "cpProfile"
    /\ \E fault \in Faults :
         LET r == validateCpAgainstCloudProfile(store, fault, call.shoot,
                                                valContext.ctx.cpConfig, cpConfigPath,
                                                call.violates)
             final == validateShoot(valContext.ctx, call.violates)
         IN  /\ pc' = "done"
             /\ fetched' = fetched \o r.gets
             /\ IF r.err # NoError
                THEN /\ result' = r.err
                     /\ trace' = trace \o <<"validateCpAgainstCloudProfile">> \o r.trace
                     /\ validated' = validated
                ELSE /\ result' = final.err
                     /\ trace' = trace \o <<"validateCpAgainstCloudProfile">> \o r.trace
                                       \o <<"validateShoot">> \o final.trace
                     /\ validated' = valContext.ctx
    /\ UNCHANGED <<call, oldValContext, valContext, store>>
    /\ UNCHANGED <<decodeVars, clusterVars>>

ValidateShootUpdate ==
    /\ pc = "idle"
    /\ \E oldShoot \in AdmissionShoots, shoot \in AdmissionShoots, violates \in UpdateViolations :
         LET r == validateShootUpdate(oldShoot, shoot, violates) IN
         /\ call' = [op |-> "update", shoot |-> shoot, oldShoot |-> oldShoot,
                     violates |-> violates]
         /\ pc' = "done"
         /\ result' = r.err
         /\ trace' = r.trace
         /\ oldValContext' = r.oldValContext
         /\ valContext' = r.valContext
         /\ validated' = r.validated
    /\ UNCHANGED <<fetched, store>>
    /\ UNCHANGED <<decodeVars, clusterVars>>

NoDecodeCall == [fn |-> "none"]

ClusterNames == {"shoot--garden--test"}
AbsentCluster == [exists |-> FALSE]
NoClusterOp == [fn |-> "none"]

AdmissionNext ==
    \/ EnvWriteCloudProfile
    \/ ValidateShootCreationStart
    \/ ValidateShootCreationInfra
    \/ ValidateShootCreationCp
    \/ ValidateShootUpdate

DecodeIdle ==
    /\ decodeCall = NoDecodeCall
    /\ decodeResult = NoDecodeCall

ClusterIdle ==
    /\ seedStore = [n \in ClusterNames |-> AbsentCluster]
    /\ clusterOp = NoClusterOp

Init == AdmissionInit /\ DecodeIdle /\ ClusterIdle

Spec == Init /\ [][AdmissionNext]_vars

-----------------------------------------------------------------------------
(* The decoders on their own: one call per behaviour, on any input *)

DecodeFns == {"DecodeControlPlaneConfig", "DecodeInfrastructureConfig",
              "DecodeCloudProfileConfig"}
GetFns == {"GetControlPlaneConfig", "GetInfrastructureConfig"}

DecodeCalls ==
    {[fn |-> f, arg |-> a] : f \in DecodeFns, a \in ProviderConfigs}
        \cup {[fn |-> f, arg |-> a] : f \in GetFns, a \in Clusters}

DecodeInit ==
    /\ AdmissionInit
    /\ ClusterIdle
    /\ decodeCall \in DecodeCalls
    /\ decodeResult = NoDecodeCall

Returns(fn, value) ==
    /\ decodeCall.fn = fn
    /\ decodeResult = NoDecodeCall
    /\ decodeResult' = value
    /\ UNCHANGED <<decodeCall, admissionVars, clusterVars>>

CallDecodeControlPlaneConfig ==
    Returns("DecodeControlPlaneConfig", DecodeControlPlaneConfig(decodeCall.arg, cpConfigPath))

CallDecodeInfrastructureConfig ==
    Returns("DecodeInfrastructureConfig",
            DecodeInfrastructureConfig(decodeCall.arg, infraConfigPath))

CallDecodeCloudProfileConfig ==
    Returns("DecodeCloudProfileConfig",
            DecodeCloudProfileConfig(decodeCall.arg, providerConfigPath))

CallGetControlPlaneConfig ==
    Returns("GetControlPlaneConfig", GetControlPlaneConfig(decodeCall.arg))

CallGetInfrastructureConfig ==
    Returns("GetInfrastructureConfig", GetInfrastructureConfig(decodeCall.arg))

DecodeNext ==
    \/ CallDecodeControlPlaneConfig
    \/ CallDecodeInfrastructureConfig
    \/ CallDecodeCloudProfileConfig
    \/ CallGetControlPlaneConfig
    \/ CallGetInfrastructureConfig

SpecDecode == DecodeInit /\ [][DecodeNext]_vars

-----------------------------------------------------------------------------------------------------------------------------------------------------
(* Cluster resources in the seed (gardener/pkg/extensions/cluster.go) *)

NilObject == [kind |-> "nil"]
EmptyTypeMeta == [apiVersion |-> "", kind |-> ""]
TypeMeta(kind) == [apiVersion |-> "core.gardener.cloud/v1beta1", kind |-> kind]
NoSeedName == "nil"

\* an object as the caller of SyncClusterResourceToSeed holds it: no TypeMeta,
\* managed fields recorded by the API server
CallerObject(kind, body) ==
    [kind |-> kind, body |-> body, typeMeta |-> EmptyTypeMeta, managedFields |-> <<"manager">>]
CallerShoot(body, seedName) ==
    [kind |-> "Shoot", body |-> body, typeMeta |-> EmptyTypeMeta,
     managedFields |-> <<"manager">>, seedName |-> seedName]

ShootArgs == {NilObject} \cup {CallerShoot(b, sn) : b \in EmbeddedBodies, sn \in {NoSeedName, "seed"}}
CloudProfileArgs == {NilObject} \cup {CallerObject("CloudProfile", b) : b \in EmbeddedBodies}
SeedArgs == {NilObject} \cup {CallerObject("Seed", b) : b \in EmbeddedBodies}

\* the bytes of an embedded object: its kind as serialized, its content, and
\* whether the scheme can convert the decoded internal object to v1beta1
Embedded(kind, body, convertible) ==
    [class |-> "object", kind |-> kind, body |-> body, convertible |-> convertible]

\* what the store holds once a RawExtension{Object: obj} has been written
Serialize(obj) == Embedded(obj.typeMeta.kind, obj.body, TRUE)

EmbeddedRaws(kind) ==
    {RawNil, RawMalformed, Embedded(kind, 1, FALSE)}
        \cup {Embedded(kind, b, TRUE) : b \in EmbeddedBodies}

ClusterResource(name, cloudProfile, seed, shoot) ==
    [exists |-> TRUE, name |-> name, cloudProfile |-> cloudProfile, seed |-> seed,
     shoot |-> shoot]

ClusterResources(name) ==
    {ClusterResource(name, c, s, sh) : c \in EmbeddedRaws("CloudProfile"),
                                        s \in EmbeddedRaws("Seed"),
                                        sh \in EmbeddedRaws("Shoot")}

SeedFaults == {"none", "get", "write"}

\* obj.DeepCopy() with TypeMeta set and ManagedFields cleared
EmbeddedCopy(obj, kind) ==
    IF obj = NilObject THEN NilObject
    ELSE [obj EXCEPT !.typeMeta = TypeMeta(kind), !.managedFields = <<>>]

\* the mutate function overwriting all three fields, a nil object clearing its field
MutateClusterOverwriteAll(cluster, cloudProfileObj, seedObj, shootObj) ==
    [cluster EXCEPT
        !.cloudProfile = IF cloudProfileObj # NilObject THEN Serialize(cloudProfileObj)
                         ELSE RawNil,
        !.seed = IF seedObj # NilObject THEN Serialize(seedObj) ELSE RawNil,
        !.shoot = IF shootObj # NilObject THEN Serialize(shootObj) ELSE RawNil]

\* the mutate function handed to CreateOrUpdate
MutateCluster(cluster, cloudProfileObj, seedObj, shootObj) ==
    [cluster EXCEPT
        !.cloudProfile = IF cloudProfileObj # NilObject THEN Serialize(cloudProfileObj) ELSE @,
        !.seed = IF seedObj # NilObject THEN Serialize(seedObj) ELSE @,
        !.shoot = IF shootObj # NilObject THEN Serialize(shootObj) ELSE @]

SyncOutcome(err, panic, ops, stored, shoot, cloudProfile, seed) ==
    [err |-> err, panic |-> panic, ops |-> ops, stored |-> stored,
     shootAfter |-> shoot, cloudProfileAfter |-> cloudProfile, seedAfter |-> seed]

\* controllerutil.CreateOrUpdate: Get, mutate, then Create or Update
CreateOrUpdate(existing, fault, name, cloudProfileObj, seedObj, shootObj) ==
    IF fault = "get"
    THEN [err |-> [type |-> "transport"], ops |-> <<"Get">>, stored |-> existing]
    ELSE LET base == IF existing.exists THEN existing
                     ELSE ClusterResource(name, RawNil, RawNil, RawNil)
             mutated == MutateCluster(base, cloudProfileObj, seedObj, shootObj)
             write == IF existing.exists THEN "Update" ELSE "Create"
         IN  IF fault = "write"
             THEN [err |-> [type |-> "StatusError", reason |-> "Conflict"],
                   ops |-> <<"Get", write>>, stored |-> existing]
             ELSE [err |-> NoError, ops |-> <<"Get", write>>, stored |-> mutated]

SyncClusterResourceToSeed(existing, fault, clusterName, shoot, cloudProfile, seed) ==
    IF shoot = NilObject
    THEN SyncOutcome(NoError, TRUE, <<>>, existing, shoot, cloudProfile, seed)
    ELSE IF shoot.seedName = NoSeedName
    THEN SyncOutcome(NoError, FALSE, <<>>, existing, shoot, cloudProfile, seed)
    ELSE LET cloudProfileObj == EmbeddedCopy(cloudProfile, "CloudProfile")
             seedObj == EmbeddedCopy(seed, "Seed")
             shootObj == EmbeddedCopy(shoot, "Shoot")
             done == CreateOrUpdate(existing, fault, clusterName,
                                    cloudProfileObj, seedObj, shootObj)
         IN  SyncOutcome(done.err, FALSE, done.ops, done.stored, shoot, cloudProfile, seed)

\* decoder.Decode(raw, nil, internal) of the garden decoder
GardenDecode(raw, kind) ==
    IF raw.class \in {"nil", "empty"}
    THEN [obj |-> [kind |-> kind, body |-> 0, convertible |-> TRUE], err |-> NoError]
    ELSE IF raw.class = "object" /\ raw.kind = kind
    THEN [obj |-> [kind |-> kind, body |-> raw.body, convertible |-> raw.convertible],
          err |-> NoError]
    ELSE [obj |-> NilObject, err |-> [type |-> "codec", raw |-> raw]]

\* gardenScheme.Convert(internal, external, nil)
SchemeConvert(internal) ==
    IF internal.convertible
    THEN [obj |-> [kind |-> internal.kind, body |-> internal.body], err |-> NoError]
    ELSE [obj |-> NilObject, err |-> [type |-> "conversion", kind |-> internal.kind]]

FromCluster(raw, kind) ==
    IF raw = RawNil THEN [obj |-> NilObject, err |-> NoError]
    ELSE IF GardenDecode(raw, kind).err # NoError
    THEN [obj |-> NilObject, err |-> GardenDecode(raw, kind).err]
    ELSE IF SchemeConvert(GardenDecode(raw, kind).obj).err # NoError
    THEN [obj |-> NilObject, err |-> SchemeConvert(GardenDecode(raw, kind).obj).err]
    ELSE [obj |-> SchemeConvert(GardenDecode(raw, kind).obj).obj, err |-> NoError]

CloudProfileFromCluster(cluster) == FromCluster(cluster.cloudProfile, "CloudProfile")

\* SeedFromCluster without the Raw == nil test
SeedFromClusterNoNilCheck(cluster) ==
    IF GardenDecode(cluster.seed, "Seed").err # NoError
    THEN [obj |-> NilObject, err |-> GardenDecode(cluster.seed, "Seed").err]
    ELSE IF SchemeConvert(GardenDecode(cluster.seed, "Seed").obj).err # NoError
    THEN [obj |-> NilObject, err |-> SchemeConvert(GardenDecode(cluster.seed, "Seed").obj).err]
    ELSE [obj |-> SchemeConvert(GardenDecode(cluster.seed, "Seed").obj).obj, err |-> NoError]

SeedFromCluster(cluster) == FromCluster(cluster.seed, "Seed")

ShootFromCluster(cluster) == FromCluster(cluster.shoot, "Shoot")

NilCluster == [nil |-> TRUE]

GetClusterOutcome(cluster, err, calls) == [cluster |-> cluster, err |-> err, calls |-> calls]

GetCluster(st, fault, namespace) ==
    LET cluster == st[namespace]
        cloudProfile == CloudProfileFromCluster(cluster)
        seed == SeedFromCluster(cluster)
        shoot == ShootFromCluster(cluster)
        c1 == <<"Get">>
        c2 == c1 \o <<"CloudProfileFromCluster">>
        c3 == c2 \o <<"SeedFromCluster">>
        c4 == c3 \o <<"ShootFromCluster">>
    IN  IF fault = "get" THEN GetClusterOutcome(NilCluster, [type |-> "transport"], c1)
        ELSE IF ~cluster.exists
        THEN GetClusterOutcome(NilCluster,
                 [type |-> "StatusError", reason |-> "NotFound", name |-> namespace], c1)
        ELSE IF cloudProfile.err # NoError THEN GetClusterOutcome(NilCluster, cloudProfile.err, c2)
        ELSE IF seed.err # NoError THEN GetClusterOutcome(NilCluster, seed.err, c3)
        ELSE IF shoot.err # NoError THEN GetClusterOutcome(NilCluster, shoot.err, c4)
        ELSE GetClusterOutcome([objectMeta |-> [name |-> cluster.name],
                                cloudProfile |-> cloudProfile.obj, seed |-> seed.obj,
                                shoot |-> shoot.obj], NoError, c4)

\* another client of the seed store creates, changes or deletes a Cluster resource
EnvWriteCluster ==
    /\ \E n \in ClusterNames :
         \E c \in {AbsentCluster} \cup ClusterResources(n) :
            /\ c # seedStore[n]
            /\ seedStore' = [seedStore EXCEPT ![n] = c]
    /\ clusterOp' = NoClusterOp
    /\ UNCHANGED <<admissionVars, decodeVars>>

CallSyncClusterResourceToSeed ==
    /\ \E n \in ClusterNames, fault \in SeedFaults, shoot \in ShootArgs,
          cloudProfile \in CloudProfileArgs, seed \in SeedArgs :
         LET out == SyncClusterResourceToSeed(seedStore[n], fault, n, shoot, cloudProfile, seed)
         IN  /\ seedStore' = [seedStore EXCEPT ![n] = out.stored]
             /\ clusterOp' = [fn |-> "SyncClusterResourceToSeed", clusterName |-> n,
                              fault |-> fault, shoot |-> shoot,
                              cloudProfile |-> cloudProfile, seed |-> seed,
                              before |-> seedStore[n], out |-> out]
    /\ UNCHANGED <<admissionVars, decodeVars>>

CallGetCluster ==
    /\ \E n \in ClusterNames, fault \in {"none", "get"} :
         clusterOp' = [fn |-> "GetCluster", namespace |-> n, fault |-> fault,
                       out |-> GetCluster(seedStore, fault, n)]
    /\ UNCHANGED seedStore
    /\ UNCHANGED <<admissionVars, decodeVars>>

ClusterNext ==
    \/ EnvWriteCluster
    \/ CallSyncClusterResourceToSeed
    \/ CallGetCluster

SpecCluster == Init /\ [][ClusterNext]_vars

-----
(* Properties of the validation context builder *)

\* every (shoot, newValidationContext result) pair the admission call has produced
BuiltContexts ==
    (IF valContext.built THEN {<<call.shoot, valContext>>} ELSE {})
        \cup (IF oldValContext.built THEN {<<call.oldShoot, oldValContext>>} ELSE {})

\* the bytes of a provider config decode into the given type
Decodable(config, kind) ==
    \/ config.raw.class \in {"nil", "empty"}
    \/ config.raw.class = "object" /\ config.raw.kind = kind

IsRequiredError(err, path) == err.type = "FieldValueRequired" /\ err.field = path

\* C1 as stated: whenever the shoot's infrastructureConfig or controlPlaneConfig
\* is nil, building the context fails with a required-field error, whatever
\* the other payload holds.
C1_RequiredWhateverTheOtherPayload ==
    \A p \in BuiltContexts :
        (p[1].infrastructureConfig = NilProviderConfig
            \/ p[1].controlPlaneConfig = NilProviderConfig)
        => p[2].err.type = "FieldValueRequired"

\* C1 amended: a nil infrastructureConfig always fails with the required-field
\* error of spec.provider.infrastructureConfig; a nil controlPlaneConfig fails
\* with the required-field error of spec.provider.controlPlaneConfig when the
\* infrastructure payload decodes, and with the infrastructure decode error
\* ("cannot be decoded") when it does not, because the controlPlaneConfig
\* presence check follows the infrastructure decode.  A nil payload is never
\* itself handed to the decoder.
C1_RequiredInCheckOrder ==
    \A p \in BuiltContexts :
        LET shoot == p[1]
            built == p[2]
        IN  /\ shoot.infrastructureConfig = NilProviderConfig
                => /\ IsRequiredError(built.err, infraConfigPath)
                   /\ built.ctx = NilContext
            /\ (/\ shoot.infrastructureConfig # NilProviderConfig
                /\ shoot.controlPlaneConfig = NilProviderConfig)
                => /\ built.ctx = NilContext
                   /\ IF Decodable(shoot.infrastructureConfig, "InfrastructureConfig")
                      THEN IsRequiredError(built.err, cpConfigPath)
                      ELSE built.err = Errorf("cannot be decoded", <<>>)

\* a shoot with a decodable infrastructureConfig and no controlPlaneConfig was rejected
C1_Witness ==
    /\ pc = "done"
    /\ call.op = "create"
    /\ call.shoot.controlPlaneConfig = NilProviderConfig
    /\ call.shoot.infrastructureConfig = ProviderConfig(RawObject("InfrastructureConfig", 1))
    /\ IsRequiredError(result, cpConfigPath)

\* C7: newValidationContext returns either a context whose shoot, infraConfig
\* and cpConfig are all set together with no error, or no context together
\* with an error; the context's shoot is the shoot it was given.
C7_ContextAllOrNothing ==
    \A p \in BuiltContexts :
        LET shoot == p[1]
            built == p[2]
        IN  \/ /\ built.err = NoError
               /\ built.ctx # NilContext
               /\ built.ctx.shoot = shoot
               /\ built.ctx.infraConfig # NilConfig
               /\ built.ctx.infraConfig.kind = "InfrastructureConfig"
               /\ built.ctx.cpConfig # NilConfig
               /\ built.ctx.cpConfig.kind = "ControlPlaneConfig"
            \/ /\ built.err # NoError
               /\ built.ctx = NilContext

\* an update call built both contexts, each around its own shoot
C7_Witness ==
    /\ call.op = "update"
    /\ call.oldShoot # call.shoot
    /\ oldValContext.built /\ oldValContext.err = NoError
    /\ oldValContext.ctx.shoot = call.oldShoot
    /\ valContext.built /\ valContext.err = NoError
    /\ valContext.ctx.shoot = call.shoot

-----------------------------------------------------------------------------
(* Properties of the admission flows *)

IsPrefix(s, t) == Len(s) <= Len(t) /\ \A i \in 1..Len(s) : s[i] = t[i]
Count(seq, x) == Cardinality({i \in DOMAIN seq : seq[i] = x})
LastOf(seq) == seq[Len(seq)]

FullCheckTrace(validator) == <<"Get", "DecodeCloudProfileConfig", validator>>

FullValidateShootTrace ==
    <<"validateShoot", "ValidateNetworking", "ValidateInfrastructureConfig",
      "ValidateControlPlaneConfig", "ValidateWorkers">>

FullCreateTrace ==
    <<"newValidationContext(shoot)", "validateInfraAgainstCloudProfile">>
        \o FullCheckTrace("ValidateInfrastructureConfigAgainstCloudProfile")
        \o <<"validateCpAgainstCloudProfile">>
        \o FullCheckTrace("ValidateControlPlaneConfigAgainstCloudProfile")
        \o FullValidateShootTrace

FullUpdateTrace ==
    <<"newValidationContext(oldShoot)", "newValidationContext(shoot)",
      "ValidateInfrastructureConfigUpdate", "ValidateControlPlaneConfigUpdate",
      "ValidateWorkersUpdate">> \o FullValidateShootTrace

\* the validators that can report a violation, with the verdict and path of each
ReportingValidators ==
    {"ValidateControlPlaneConfigAgainstCloudProfile", "ValidateControlPlaneConfigUpdate",
     "ValidateWorkersUpdate", "ValidateNetworking", "ValidateControlPlaneConfig",
     "ValidateWorkers"}

VerdictOf(validator, violates) ==
    CASE validator = "ValidateControlPlaneConfigAgainstCloudProfile" -> violates.cpAgainstProfile
      [] validator = "ValidateControlPlaneConfigUpdate" -> violates.cpUpdate
      [] validator = "ValidateWorkersUpdate" -> violates.workersUpdate
      [] validator = "ValidateNetworking" -> violates.networking
      [] validator = "ValidateControlPlaneConfig" -> violates.controlPlane
      [] validator = "ValidateWorkers" -> violates.workers
      [] OTHER -> FALSE

PathOf(validator) ==
    CASE validator = "ValidateNetworking" -> nwPath
      [] validator \in {"ValidateWorkers", "ValidateWorkersUpdate"} -> workersPath
      [] OTHER -> cpConfigPath

ViolationReport(validator) ==
    [type |-> "Aggregate",
     errs |-> <<[type |-> "FieldValueInvalid", field |-> PathOf(validator), by |-> validator]>>]

MissingProviderConfigError(name) ==
    [type |-> "errorString", msg |-> "providerConfig is not given for cloud profile %q",
     args |-> <<name>>]

\* a Get that returned a profile the cross-profile check can go on with
UsableFetch(got) ==
    /\ got.err = NoError
    /\ got.obj.providerConfig # NilProviderConfig
    /\ Decodable(got.obj.providerConfig, "CloudProfileConfig")

Failed == pc = "done" /\ result # NoError

\* the calls that have returned without an error
PassedCalls == IF Failed THEN SubSeq(trace, 1, Len(trace) - 1) ELSE trace

\* the failing call is the last one made, and the result is exactly its error
ResultIsErrorOfLastCall ==
    LET last == LastOf(trace)
        got == LastOf(fetched)
    IN  CASE last \in {"newValidationContext(shoot)"} ->
                result = valContext.err
          [] last = "newValidationContext(oldShoot)" ->
                result = oldValContext.err
          [] last = "Get" ->
                \/ got.err # NoError /\ result = got.err
                \/ /\ got.err = NoError
                   /\ got.obj.providerConfig = NilProviderConfig
                   /\ result = MissingProviderConfigError(call.shoot.cloudProfileName)
          [] last = "DecodeCloudProfileConfig" ->
                /\ ~UsableFetch(got)
                /\ result.type = "errorString"
                /\ result.msg = "an error occurred while reading the cloud profile %q: %v"
          [] last \in ReportingValidators ->
                /\ VerdictOf(last, call.violates)
                /\ result = ViolationReport(last)
          [] OTHER -> FALSE

\* C2: the create flow makes its calls in the fixed order (context, infra
\* cross-profile check, control plane cross-profile check, then networking,
\* infra, control plane and workers validation); the first call that yields an
\* error ends the flow with exactly that error and nothing after it runs; the
\* flow succeeds only if every call ran and passed.
C2_CreateFailFast ==
    call.op = "create" =>
        /\ IsPrefix(trace, FullCreateTrace)
        /\ pc # "done" => result = NoError
        /\ \A i \in DOMAIN PassedCalls :
              /\ ~VerdictOf(PassedCalls[i], call.violates)
              /\ PassedCalls[i] = "newValidationContext(shoot)" => valContext.err = NoError
        /\ \A i \in DOMAIN fetched : i < Len(fetched) \/ ~Failed => UsableFetch(fetched[i])
        /\ Failed => ResultIsErrorOfLastCall
        /\ (pc = "done" /\ result = NoError) =>
              /\ trace = FullCreateTrace
              /\ validated = valContext.ctx

\* a create call stopped at the networking violation although the workers were invalid too
C2_Witness ==
    /\ call.op = "create" /\ pc = "done"
    /\ call.violates.networking /\ call.violates.workers
    /\ LastOf(trace) = "ValidateNetworking"
    /\ result = ViolationReport("ValidateNetworking")

\* the error newValidationContext is to return for a shoot
ExpectedContextError(shoot) ==
    IF shoot.infrastructureConfig = NilProviderConfig
    THEN [type |-> "FieldValueRequired", field |-> infraConfigPath,
          detail |-> "infrastructureConfig must be set for OpenStack shoots"]
    ELSE IF ~Decodable(shoot.infrastructureConfig, "InfrastructureConfig")
    THEN [type |-> "errorString", msg |-> "cannot be decoded", args |-> <<>>]
    ELSE IF shoot.controlPlaneConfig = NilProviderConfig
    THEN [type |-> "FieldValueRequired", field |-> cpConfigPath,
          detail |-> "controlPlaneConfig must be set for OpenStack shoots"]
    ELSE IF ~Decodable(shoot.controlPlaneConfig, "ControlPlaneConfig")
    THEN [type |-> "FieldValueInvalid", field |-> cpConfigPath,
          value |-> shoot.controlPlaneConfig.raw, detail |-> "cannot be decoded"]
    ELSE NoError

\* the outcome of the update flow as a function of the request alone: the
\* error of the earliest failing call and the number of calls made
ExpectedUpdateOutcome(c) ==
    IF ExpectedContextError(c.oldShoot) # NoError
    THEN [err |-> ExpectedContextError(c.oldShoot), calls |-> 1]
    ELSE IF ExpectedContextError(c.shoot) # NoError
    THEN [err |-> ExpectedContextError(c.shoot), calls |-> 2]
    ELSE IF c.violates.cpUpdate
    THEN [err |-> ViolationReport("ValidateControlPlaneConfigUpdate"), calls |-> 4]
    ELSE IF c.violates.workersUpdate
    THEN [err |-> ViolationReport("ValidateWorkersUpdate"), calls |-> 5]
    ELSE IF c.violates.networking
    THEN [err |-> ViolationReport("ValidateNetworking"), calls |-> 7]
    ELSE IF c.violates.controlPlane
    THEN [err |-> ViolationReport("ValidateControlPlaneConfig"), calls |-> 9]
    ELSE IF c.violates.workers
    THEN [err |-> ViolationReport("ValidateWorkers"), calls |-> 10]
    ELSE [err |-> NoError, calls |-> 10]

\* C3: the update flow runs in the fixed order (old context, new context,
\* infra update check, control plane update check, workers update check, full
\* validation); the reported error is that of the earliest failing call, and
\* the full validation is applied to the new shoot's context.  (The infra
\* update validator reports nothing, so it is never the failing call.)
C3_UpdateFailFast ==
    call.op = "update" =>
        /\ pc = "done"
        /\ result = ExpectedUpdateOutcome(call).err
        /\ trace = SubSeq(FullUpdateTrace, 1, ExpectedUpdateOutcome(call).calls)
        /\ IF "validateShoot" \in {trace[i] : i \in DOMAIN trace}
           THEN /\ validated = valContext.ctx
                /\ validated.shoot = call.shoot
           ELSE validated = NilContext

\* an update with a control plane delta violation and a workers delta
\* violation, between two different shoots, reported the control plane one
C3_Witness ==
    /\ call.op = "update" /\ pc = "done"
    /\ call.oldShoot # call.shoot
    /\ oldValContext.err = NoError /\ valContext.err = NoError
    /\ call.violates.cpUpdate /\ call.violates.workersUpdate
    /\ result = ViolationReport("ValidateControlPlaneConfigUpdate")

\* C4: a cross-profile check whose Get returned a profile without
\* providerConfig ends the call with the "providerConfig is not given for
\* cloud profile" error, whatever the shoot's configs are, without decoding the
\* profile or running a validator.
C4_MissingProviderConfig ==
    call.op = "create" =>
        \A i \in DOMAIN fetched :
            (fetched[i].err = NoError /\ fetched[i].obj.providerConfig = NilProviderConfig)
            => /\ i = Len(fetched)
               /\ pc = "done"
               /\ result = MissingProviderConfigError(call.shoot.cloudProfileName)
               /\ LastOf(trace) = "Get"
               /\ validated = NilContext

\* the control plane check met a profile without providerConfig, for a shoot
\* whose two configs decode
C4_Witness ==
    /\ call.op = "create" /\ pc = "done"
    /\ call.shoot.infrastructureConfig = ProviderConfig(RawObject("InfrastructureConfig", 1))
    /\ call.shoot.controlPlaneConfig = ProviderConfig(RawObject("ControlPlaneConfig", 1))
    /\ Len(fetched) = 2
    /\ fetched[2].err = NoError /\ fetched[2].obj.providerConfig = NilProviderConfig
    /\ result = MissingProviderConfigError("profile")

StoreErrorTypes == {"StatusError", "transport", "context canceled"}

\* C5: when the Get of the CloudProfile fails, the call ends at once with
\* exactly the store's error; the Get is not repeated and nothing else runs.
C5_StoreErrorUnchanged ==
    call.op = "create" =>
        \A i \in DOMAIN fetched :
            fetched[i].err # NoError
            => /\ i = Len(fetched)
               /\ pc = "done"
               /\ result = fetched[i].err
               /\ result.type \in StoreErrorTypes
               /\ LastOf(trace) = "Get"
               /\ Count(trace, "Get") = i
               /\ Count(trace, "validateInfraAgainstCloudProfile")
                    + Count(trace, "validateCpAgainstCloudProfile") = i
               /\ validated = NilContext

\* the second Get was cancelled and the call returned the cancellation
C5_Witness ==
    /\ call.op = "create" /\ pc = "done"
    /\ Len(fetched) = 2
    /\ fetched[2].err = [type |-> "context canceled"]
    /\ result = [type |-> "context canceled"]

FirstCheckFailed ==
    \/ ~UsableFetch(fetched[1])

C10_GetsInv ==
    /\ Count(trace, "Get") = Len(fetched)
    /\ Len(fetched) = Count(trace, "validateInfraAgainstCloudProfile")
                        + Count(trace, "validateCpAgainstCloudProfile")
    /\ (call.op = "create" /\ pc = "done") =>
          IF ExpectedContextError(call.shoot) # NoError THEN Len(fetched) = 0
          ELSE IF FirstCheckFailed THEN Len(fetched) = 1
          ELSE Len(fetched) = 2
    /\ call.op = "update" =>
          /\ Len(fetched) = 0
          /\ result = ExpectedUpdateOutcome(call).err

\* C10: an admission call issues one Get per cross-profile check it starts:
\* none when the context cannot be built, one when the infra check fails, two
\* otherwise; the update flow issues none and its outcome is a function of the
\* request alone; no step of an admission call writes the store.
C10_OneGetPerCheck ==
    /\ []C10_GetsInv
    /\ [][trace' # trace => store' = store]_vars

\* a create call fetched the profile twice and saw two different versions of it
C10_Witness ==
    /\ call.op = "create" /\ pc = "done"
    /\ Len(fetched) = 2
    /\ fetched[1].err = NoError /\ fetched[2].err = NoError
    /\ fetched[1].obj # fetched[2].obj

-----------------------------------------------------------------------------
(* Properties of the decoders *)

TargetOf(fn) ==
    CASE fn \in {"DecodeControlPlaneConfig", "GetControlPlaneConfig"} -> "ControlPlaneConfig"
      [] fn \in {"DecodeInfrastructureConfig", "GetInfrastructureConfig"} ->
            "InfrastructureConfig"
      [] OTHER -> "CloudProfileConfig"

\* the provider config the called decoder reads
PayloadOf(c) ==
    CASE c.fn = "GetControlPlaneConfig" -> c.arg.shoot.controlPlaneConfig
      [] c.fn = "GetInfrastructureConfig" -> c.arg.shoot.infrastructureConfig
      [] OTHER -> c.arg

\* C6: every decoder returns a non-nil zero-value config and no error for a
\* nil or empty payload, the decoded config and no error for bytes of its
\* target type, and an error and no config for any other bytes.  (The Decode*
\* functions dereference their argument, so they need it non-nil; the Get*
\* helpers take an unset field as an empty payload.)
C6_DecodeTotal ==
    decodeResult # NoDecodeCall =>
        LET payload == PayloadOf(decodeCall)
            target == TargetOf(decodeCall.fn)
            out == decodeResult
        IN  IF payload = NilProviderConfig
            THEN IF decodeCall.fn \in DecodeFns
                 THEN out.panic
                 ELSE ~out.panic /\ out.err = NoError
                        /\ out.config = [kind |-> target, body |-> 0]
            ELSE /\ ~out.panic
                 /\ payload.raw.class \in {"nil", "empty"}
                       => out.err = NoError /\ out.config = [kind |-> target, body |-> 0]
                 /\ (payload.raw.class = "object" /\ payload.raw.kind = target)
                       => /\ out.err = NoError
                          /\ out.config = [kind |-> target, body |-> payload.raw.body]
                 /\ (payload.raw.class = "malformed"
                        \/ (payload.raw.class = "object" /\ payload.raw.kind # target))
                       => out.err # NoError /\ out.config = NilConfig

\* GetInfrastructureConfig was given the bytes of a ControlPlaneConfig and refused them
C6_Witness ==
    /\ decodeCall.fn = "GetInfrastructureConfig"
    /\ decodeCall.arg.shoot.infrastructureConfig
          = ProviderConfig(RawObject("ControlPlaneConfig", 1))
    /\ decodeResult # NoDecodeCall
    /\ decodeResult.err # NoError
    /\ decodeResult.config = NilConfig

-----------------------------------------------------------------------------
(* Properties of the Cluster helpers *)

\* the bytes the store is to hold for an embedded object after a sync
ExpectedEmbedded(arg, kind, before, field) ==
    IF arg # NilObject
    THEN [class |-> "object", kind |-> kind, body |-> arg.body, convertible |-> TRUE]
    ELSE IF before.exists THEN before[field] ELSE RawNil

\* C8: SyncClusterResourceToSeed does nothing and succeeds when the shoot has
\* no seed name; otherwise it reads the Cluster, creates it if absent and
\* updates it if present, overwriting spec.cloudProfile, spec.seed and
\* spec.shoot each only when its argument is non-nil and keeping the stored
\* value otherwise; the caller's objects are left as they were.  (A failed
\* store call leaves the resource as it was.)
C8_SyncIsPartialUpsert ==
    clusterOp.fn = "SyncClusterResourceToSeed" =>
        LET o == clusterOp
            now == seedStore[o.clusterName]
        IN  /\ o.out.shootAfter = o.shoot
            /\ o.out.cloudProfileAfter = o.cloudProfile
            /\ o.out.seedAfter = o.seed
            /\ IF o.shoot = NilObject
               THEN o.out.panic /\ o.out.ops = <<>> /\ now = o.before
               ELSE IF o.shoot.seedName = NoSeedName
               THEN /\ ~o.out.panic /\ o.out.err = NoError
                    /\ o.out.ops = <<>>
                    /\ now = o.before
               ELSE /\ ~o.out.panic
                    /\ o.out.err # NoError => now = o.before
                    /\ o.out.err = NoError =>
                          /\ o.out.ops = <<"Get", IF o.before.exists THEN "Update"
                                                  ELSE "Create">>
                          /\ now.exists
                          /\ now.name = o.clusterName
                          /\ now.cloudProfile
                                = ExpectedEmbedded(o.cloudProfile, "CloudProfile", o.before,
                                                   "cloudProfile")
                          /\ now.seed = ExpectedEmbedded(o.seed, "Seed", o.before, "seed")
                          /\ now.shoot = ExpectedEmbedded(o.shoot, "Shoot", o.before, "shoot")

\* a sync without seed and cloud profile updated an existing Cluster: the shoot
\* was replaced, the stored seed and cloud profile stayed
C8_Witness ==
    /\ clusterOp.fn = "SyncClusterResourceToSeed"
    /\ clusterOp.out.err = NoError
    /\ clusterOp.out.ops = <<"Get", "Update">>
    /\ clusterOp.seed = NilObject /\ clusterOp.cloudProfile = NilObject
    /\ clusterOp.before.seed = Embedded("Seed", 1, TRUE)
    /\ clusterOp.before.shoot = RawMalformed
    /\ seedStore[clusterOp.clusterName].seed = Embedded("Seed", 1, TRUE)
    /\ seedStore[clusterOp.clusterName].shoot = Embedded("Shoot", 1, TRUE)

\* whether an embedded payload decodes and converts
EmbeddedOk(raw, kind) ==
    raw = RawNil \/ (raw.class = "object" /\ raw.kind = kind /\ raw.convertible)

\* what GetCluster is to return for a payload that is fine
ExpectedDecoded(raw, kind) ==
    IF raw = RawNil THEN [kind |-> "nil"] ELSE [kind |-> kind, body |-> raw.body]

ExpectedPayloadError(raw, kind) ==
    IF raw.class = "object" /\ raw.kind = kind
    THEN [type |-> "conversion", kind |-> kind]
    ELSE [type |-> "codec", raw |-> raw]

\* C9: GetCluster decodes the three embedded payloads independently: an absent
\* payload gives a nil field and no error, a well-formed one gives its object.
\* If the Get fails or a payload does not decode or convert, it returns no
\* Cluster and the error of the first failing one in the order CloudProfile,
\* Seed, Shoot.
C9_GetClusterOptionalPayloads ==
    clusterOp.fn = "GetCluster" =>
        LET o == clusterOp
            stored == seedStore[o.namespace]
            out == o.out
        IN  IF o.fault = "get"
            THEN out.cluster = NilCluster /\ out.err = [type |-> "transport"]
                    /\ out.calls = <<"Get">>
            ELSE IF ~stored.exists
            THEN out.cluster = NilCluster /\ out.err.type = "StatusError"
                    /\ out.calls = <<"Get">>
            ELSE IF ~EmbeddedOk(stored.cloudProfile, "CloudProfile")
            THEN /\ out.cluster = NilCluster
                 /\ out.err = ExpectedPayloadError(stored.cloudProfile, "CloudProfile")
                 /\ out.calls = <<"Get", "CloudProfileFromCluster">>
            ELSE IF ~EmbeddedOk(stored.seed, "Seed")
            THEN /\ out.cluster = NilCluster
                 /\ out.err = ExpectedPayloadError(stored.seed, "Seed")
                 /\ out.calls = <<"Get", "CloudProfileFromCluster", "SeedFromCluster">>
            ELSE IF ~EmbeddedOk(stored.shoot, "Shoot")
            THEN /\ out.cluster = NilCluster
                 /\ out.err = ExpectedPayloadError(stored.shoot, "Shoot")
                 /\ out.calls = <<"Get", "CloudProfileFromCluster", "SeedFromCluster",
                                  "ShootFromCluster">>
            ELSE /\ out.err = NoError
                 /\ out.cluster # NilCluster
                 /\ out.cluster.objectMeta = [name |-> o.namespace]
                 /\ out.cluster.cloudProfile
                       = ExpectedDecoded(stored.cloudProfile, "CloudProfile")
                 /\ out.cluster.seed = ExpectedDecoded(stored.seed, "Seed")
                 /\ out.cluster.shoot = ExpectedDecoded(stored.shoot, "Shoot")

\* a Cluster holding only a shoot was read: the other two fields came back nil
C9_Witness ==
    /\ clusterOp.fn = "GetCluster"
    /\ clusterOp.out.err = NoError
    /\ seedStore[clusterOp.namespace].cloudProfile = RawNil
    /\ seedStore[clusterOp.namespace].seed = RawNil
    /\ clusterOp.out.cluster.cloudProfile = NilObject
    /\ clusterOp.out.cluster.seed = NilObject
    /\ clusterOp.out.cluster.shoot = [kind |-> "Shoot", body |-> 1]

-----------------------------------------------------------------------------
(* The create flow against a create flow that fetches the CloudProfile once *)

\* a create flow that issues one Get and hands what it returned to both
\* cross-profile checks; got is the result of that one Get
validateShootCreationSingleFetch(got, shoot, violates) ==
    LET built == newValidationContext(shoot)
        infra == infraAgainstFetched(got, built.ctx.infraConfig, infraConfigPath)
        cp == cpAgainstProviderConfig(got, built.ctx.cpConfig, cpConfigPath, violates)
        final == validateShoot(built.ctx, violates)
    IN  IF built.err # NoError THEN built.err
        ELSE IF got.err # NoError THEN got.err
        ELSE IF infra.err # NoError THEN infra.err
        ELSE IF cp.err # NoError THEN cp.err
        ELSE final.err

\* a create call has returned after at least one access to the store
CreateDoneAfterFetch == pc = "done" /\ call.op = "create" /\ fetched # <<>>

\* what the single-fetch flow returns for the call at hand, its one Get being
\* answered as the first Get of the call was
SingleFetchResult ==
    validateShootCreationSingleFetch(fetched[1], call.shoot, call.violates)

\* the second Get of the call, if there was one, returned what the first returned
SecondFetchAgrees == Len(fetched) = 2 => fetched[2] = fetched[1]

\* C11 as stated: whatever the store does during the call, the create flow with
\* its two fetches returns the error (or nil) that a create flow with one shared
\* fetch returns.
C11_SingleFetchEquivalent ==
    CreateDoneAfterFetch => result = SingleFetchResult

\* C11: when the second fetch of a create call returns what the first returned
\* (the same CloudProfile, and no fault), the create flow with its two fetches
\* returns the error (or nil) that a create flow with one shared fetch returns;
\* a call that fails before its first fetch never reaches the store at all.
C11_SingleFetchEquivalentOnAgreeingFetches ==
    /\ (CreateDoneAfterFetch /\ SecondFetchAgrees) => result = SingleFetchResult
    /\ (pc = "done" /\ call.op = "create" /\ fetched = <<>>)
          => /\ result = newValidationContext(call.shoot).err
             /\ result # NoError

\* both fetches returned the same profile and the control plane check, using
\* the second, rejected the request
C11_Witness ==
    /\ CreateDoneAfterFetch
    /\ Len(fetched) = 2
    /\ fetched[2] = fetched[1]
    /\ LastOf(trace) = "ValidateControlPlaneConfigAgainstCloudProfile"
    /\ result # NoError
    /\ result = SingleFetchResult

====
